---- MODULE Spec2Model ----
(***************************************************************************)
(* A model of gwalk: the chunked tile world of src/src/main.go and its     *)
(* float-vector variant src/unnamed/part_000.                              *)
(*                                                                         *)
(* Units.  float32 values of the program are modelled by integers:         *)
(*   - world, screen and camera coordinates in quarter units (Unit = 4 per *)
(*     1.0): every such value of the program is a sum of integers and of   *)
(*     multiples of moveSpeed = 5.25, which float32 holds exactly at the   *)
(*     magnitudes modelled;                                                *)
(*   - heights in thousandths (0.42 is 420): the float32 rounding of a     *)
(*     three-decimal literal is strictly monotone, so < on thousandths is  *)
(*     < on the float32 values.                                            *)
(* int32 values stay far from 2^31 at the bounds modelled.                 *)
(***************************************************************************)
EXTENDS Integers, Sequences, FiniteSets, TLC

VARIABLES
    windowSize,    \* Game.windowSize
    camera,        \* Game.camera.center, quarter units
    coordToChunk,  \* Game.chunkMap.coordToChunk: chunk coordinate -> *Chunk
    TILE_SIZE,     \* gameSettings.TILE_SIZE
    generated,     \* how many times generateChunk ran, per chunk coordinate
    panicked,      \* the process died of a runtime panic
    pc,            \* position of main's loop: "draw" or "input"
    call,          \* the last call made: its arguments and what it returned
    frame,         \* the draw pass's getTile and drawTile calls, until EndDrawing
    zoomKeys       \* the zoom keys (Q, E) down at the last handleInput

vars == <<windowSize, camera, coordToChunk, TILE_SIZE, generated, panicked,
          pc, call, frame, zoomKeys>>

(***************************************************************************)
(* Bounds of the model.                                                    *)
(***************************************************************************)
MaxMult == 1        \* probed tile X coordinates: within 1 of m*25, |m| <= MaxMult
MaxProbeY == 1      \* probed tile Y coordinates: -MaxProbeY..0
MaxChunks == 2      \* direct store calls stop generating at this many chunks
ViewW == 12         \* window width of the modelled game, pixels
ViewH == 6          \* window height of the modelled game, pixels
MaxCamSteps == 1    \* the camera stays within MaxCamSteps moves of the origin, per axis
MaxTileSize == 6    \* zooming in stops at this tile size
MaxWorld == 26      \* world X coordinates fed to toTileCoord: -6.5..6.5, in quarter units
MaxPureTile == 3    \* tile sizes fed to toTileCoord: 1..MaxPureTile
MaxHeight == 1001   \* heights fed to getTerrain: 0..MaxHeight thousandths
MaxDim == 3         \* matrices fed to At and Set: up to MaxDim x MaxDim

(***************************************************************************)
(* Go integer arithmetic: / and % truncate toward zero.                    *)
(***************************************************************************)
Abs(n) == IF n < 0 THEN -n ELSE n

Quo(a, b) ==
    LET q == Abs(a) \div Abs(b)
    IN  IF (a < 0) = (b < 0) THEN q ELSE -q

Rem(a, b) == a - b * Quo(a, b)

Vec(x, y) == [X |-> x, Y |-> y]

Unit == 4           \* quarter units per 1.0 of a float32 coordinate

\* int32(f) of a float32 f given in quarter units: truncation toward zero.
Int32Of(f) == Quo(f, Unit)

\* float32(n) of an integer n, in quarter units.
Float32Of(n) == Unit * n

(***************************************************************************)
(* Terrain.                                                                *)
(***************************************************************************)
UndefinedTerrain == 0
Sand == 1
Gravel == 2
Dirt == 3
LowGrass == 4
HighGrass == 5
Forest == 6
Mountain == 7

WATER_LEVEL == 400
MAP_SCALAR == Vec(100, 100)
CHUNK_SIZE == Vec(25, 25)

heightBoundaryToTile ==
    << [UpperBound |-> 420,  Terrain |-> Sand],
       [UpperBound |-> 450,  Terrain |-> Gravel],
       [UpperBound |-> 470,  Terrain |-> Dirt],
       [UpperBound |-> 550,  Terrain |-> LowGrass],
       [UpperBound |-> 600,  Terrain |-> HighGrass],
       [UpperBound |-> 780,  Terrain |-> Forest],
       [UpperBound |-> 1000, Terrain |-> Mountain] >>

\* getTerrainFrom with the band's upper bound taken as inclusive.
RECURSIVE getTerrainInclusive(_, _)
getTerrainInclusive(height, i) ==
    IF i > Len(heightBoundaryToTile)
    THEN UndefinedTerrain
    ELSE IF height <= heightBoundaryToTile[i].UpperBound
         THEN heightBoundaryToTile[i].Terrain
         ELSE getTerrainInclusive(height, i + 1)

RECURSIVE getTerrainFrom(_, _)
getTerrainFrom(height, i) ==
    IF i > Len(heightBoundaryToTile)
    THEN UndefinedTerrain
    ELSE IF height < heightBoundaryToTile[i].UpperBound
         THEN heightBoundaryToTile[i].Terrain
         ELSE getTerrainFrom(height, i + 1)

\* getTerrain with a scan that starts one band late.
getTerrainSkipsFirst(height) == getTerrainFrom(height, 2)

getTerrain(height) == getTerrainFrom(height, 1)

(***************************************************************************)
(* The noise library is outside the repository: Eval32 stands for its      *)
(* value at (x, y), a fixed function of the point for the fixed seed, in    *)
(* thousandths of [-1, 1].  Its arguments are in hundredths.               *)
(***************************************************************************)
Eval32(x, y) == 2 * ((x * 37 + y * 101 + x * y * 7) % 1001) - 1000

getHeight(coordinate) ==
    LET height == Eval32((coordinate.X * 100) \div MAP_SCALAR.X,
                         (coordinate.Y * 100) \div MAP_SCALAR.Y)
    IN  (height + 1000) \div 2

(***************************************************************************)
(* Matrix: w, h and a flat slice.  Go checks the flat index against the    *)
(* slice's length and nothing else.                                        *)
(***************************************************************************)
ZeroTile == [terrain |-> UndefinedTerrain, waterlogged |-> FALSE, height |-> 0]

MakeMatrix(w, h, zero) == [w |-> w, h |-> h, data |-> <<>> \o [i \in 1..(w * h) |-> zero]]

IndexPanics(m, x, y) == (y * m.w + x) \notin 0..(Len(m.data) - 1)

At(m, x, y) == m.data[y * m.w + x + 1]

Set(m, x, y, t) == [m EXCEPT !.data[y * m.w + x + 1] = t]

(***************************************************************************)
(* Chunks.  The loops of generateChunk carry the matrix and whether a Set  *)
(* panicked.                                                               *)
(***************************************************************************)
RECURSIVE generateChunkX(_, _, _, _)
generateChunkX(acc, chunkCoordinate, y, x) ==
    IF acc.panicked \/ ~(x < acc.tiles.w)
    THEN acc
    ELSE LET height == getHeight(Vec(chunkCoordinate.X * CHUNK_SIZE.X + x,
                                     chunkCoordinate.Y * CHUNK_SIZE.Y + y))
             tile == [terrain |-> getTerrain(height),
                      waterlogged |-> height < WATER_LEVEL,
                      height |-> height]
         IN  IF IndexPanics(acc.tiles, x, y)
             THEN [acc EXCEPT !.panicked = TRUE]
             ELSE generateChunkX([acc EXCEPT !.tiles = Set(acc.tiles, x, y, tile)],
                                 chunkCoordinate, y, x + 1)

RECURSIVE generateChunkY(_, _, _)
generateChunkY(acc, chunkCoordinate, y) ==
    IF acc.panicked \/ ~(y < acc.tiles.h)
    THEN acc
    ELSE generateChunkY(generateChunkX(acc, chunkCoordinate, y, 0),
                        chunkCoordinate, y + 1)

generateChunk(chunkCoordinate) ==
    generateChunkY([tiles |-> MakeMatrix(CHUNK_SIZE.X, CHUNK_SIZE.Y, ZeroTile),
                    panicked |-> FALSE],
                   chunkCoordinate, 0)

(***************************************************************************)
(* generateChunk reads nothing but its argument and the fixed settings:    *)
(* its values over the chunk coordinates the model visits are tabulated.   *)
(***************************************************************************)
ChunkTableCoords ==
    {Vec(x, y) : x \in -(MaxMult + 1)..(MaxMult + 1), y \in -1..0}

ChunkTable == {<<c, generateChunk(c)>> : c \in ChunkTableCoords}

generateChunkAt(chunkCoordinate) ==
    IF chunkCoordinate \in ChunkTableCoords
    THEN (CHOOSE p \in ChunkTable : p[1] = chunkCoordinate)[2]
    ELSE generateChunk(chunkCoordinate)

\* mod as Go's remainder, which keeps the sign of a.
modRemainder(a, b) == Rem(a, b)

mod(a, b) == Rem(Rem(a, b) + b, b)

getChunkCoords(tileCoord) ==
    LET res == Vec(Quo(tileCoord.X, CHUNK_SIZE.X), Quo(tileCoord.Y, CHUNK_SIZE.Y))
        resX == IF tileCoord.X < 0 THEN res.X - 1 ELSE res.X
        resY == IF tileCoord.Y < 0 THEN res.Y - 1 ELSE res.Y
    IN  Vec(resX, resY)

(***************************************************************************)
(* A store is the map and the generation counters.  getChunk and getTile   *)
(* take a store and give the store after the call with what was returned.  *)
(* A *Chunk is the chunk's tiles and its address; the k-th chunk generated *)
(* for coordinate c lives at address <<c, k>>.                             *)
(***************************************************************************)
NoChunk == <<>>

Count(gen, c) == IF c \in DOMAIN gen THEN gen[c] ELSE 0

Put(f, k, v) == [x \in DOMAIN f \cup {k} |-> IF x = k THEN v ELSE f[x]]

\* getChunk that generates and inserts whether or not the coordinate is cached.
getChunkRegenerates(store, chunkCoordinate) ==
    LET gen == generateChunkAt(chunkCoordinate)
        n == Count(store.generated, chunkCoordinate) + 1
        chunk == [tiles |-> gen.tiles, addr |-> <<chunkCoordinate, n>>]
    IN  [coordToChunk |-> Put(store.coordToChunk, chunkCoordinate, chunk),
         generated |-> Put(store.generated, chunkCoordinate, n),
         ok |-> chunkCoordinate \in DOMAIN store.coordToChunk,
         panicked |-> gen.panicked,
         chunk |-> chunk]

getChunk(store, chunkCoordinate) ==
    LET ok == chunkCoordinate \in DOMAIN store.coordToChunk
    IN  IF ok
        THEN [coordToChunk |-> store.coordToChunk,
              generated |-> store.generated,
              ok |-> TRUE, panicked |-> FALSE,
              chunk |-> store.coordToChunk[chunkCoordinate]]
        ELSE LET gen == generateChunkAt(chunkCoordinate)
                 n == Count(store.generated, chunkCoordinate) + 1
                 chunk == [tiles |-> gen.tiles, addr |-> <<chunkCoordinate, n>>]
             IN  [coordToChunk |-> IF gen.panicked
                                   THEN store.coordToChunk
                                   ELSE Put(store.coordToChunk, chunkCoordinate, chunk),
                  generated |-> Put(store.generated, chunkCoordinate, n),
                  ok |-> FALSE, panicked |-> gen.panicked,
                  chunk |-> chunk]

\* getTile with the in-chunk offset taken modulo TILE_SIZE instead of CHUNK_SIZE.
getTileByTileSize(store, tileCoord) ==
    LET chunkCoord == getChunkCoords(tileCoord)
        coordInChunk == Vec(mod(tileCoord.X, TILE_SIZE.X),
                            mod(tileCoord.Y, TILE_SIZE.Y))
        got == getChunk(store, chunkCoord)
        oob == ~got.panicked
               /\ IndexPanics(got.chunk.tiles, coordInChunk.X, coordInChunk.Y)
    IN  [coordToChunk |-> got.coordToChunk,
         generated |-> got.generated,
         ok |-> got.ok,
         panicked |-> got.panicked \/ oob,
         chunkCoord |-> chunkCoord,
         coordInChunk |-> coordInChunk,
         addr |-> got.chunk.addr,
         tile |-> IF got.panicked \/ oob
                  THEN ZeroTile
                  ELSE At(got.chunk.tiles, coordInChunk.X, coordInChunk.Y)]

getTile(store, tileCoord) ==
    LET chunkCoord == getChunkCoords(tileCoord)
        coordInChunk == Vec(mod(tileCoord.X, CHUNK_SIZE.X),
                            mod(tileCoord.Y, CHUNK_SIZE.Y))
        got == getChunk(store, chunkCoord)
        oob == ~got.panicked
               /\ IndexPanics(got.chunk.tiles, coordInChunk.X, coordInChunk.Y)
    IN  [coordToChunk |-> got.coordToChunk,
         generated |-> got.generated,
         ok |-> got.ok,
         panicked |-> got.panicked \/ oob,
         chunkCoord |-> chunkCoord,
         coordInChunk |-> coordInChunk,
         addr |-> got.chunk.addr,
         tile |-> IF got.panicked \/ oob
                  THEN ZeroTile
                  ELSE At(got.chunk.tiles, coordInChunk.X, coordInChunk.Y)]

Store == [coordToChunk |-> coordToChunk, generated |-> generated]

(***************************************************************************)
(* SpecStore: one ChunkMap, called directly with getChunk and getTile.     *)
(***************************************************************************)
TileXs == {m * CHUNK_SIZE.X + d : m \in -MaxMult..MaxMult, d \in -1..1}
TileYs == -MaxProbeY..0
TileCoords == {Vec(x, y) : x \in TileXs, y \in TileYs}
ChunkCoords == {getChunkCoords(t) : t \in TileCoords}

NoCall == [op |-> "none", tileCoord |-> Vec(0, 0), chunkCoord |-> Vec(0, 0),
           coordInChunk |-> Vec(0, 0), ok |-> FALSE, addr |-> NoChunk,
           tile |-> ZeroTile]

MayGenerate(c) ==
    c \in DOMAIN coordToChunk \/ Cardinality(DOMAIN coordToChunk) < MaxChunks

StoreInit ==
    /\ windowSize = Vec(800, 600)
    /\ camera = Vec(0, 0)
    /\ coordToChunk = <<>>
    /\ TILE_SIZE = Vec(5, 5)
    /\ generated = <<>>
    /\ panicked = FALSE
    /\ pc = "draw"
    /\ call = NoCall
    /\ frame = <<>>
    /\ zoomKeys = {}

GetChunk(c) ==
    /\ ~panicked
    /\ MayGenerate(c)
    /\ \E got \in {getChunk(Store, c)} :
           /\ coordToChunk' = got.coordToChunk
           /\ generated' = got.generated
           /\ panicked' = got.panicked
           /\ call' = [NoCall EXCEPT !.op = "getChunk", !.chunkCoord = c,
                                     !.ok = got.ok, !.addr = got.chunk.addr]
    /\ UNCHANGED <<windowSize, camera, TILE_SIZE, pc, frame, zoomKeys>>

GetTile(t) ==
    /\ ~panicked
    /\ MayGenerate(getChunkCoords(t))
    /\ \E got \in {getTile(Store, t)} :
           /\ coordToChunk' = got.coordToChunk
           /\ generated' = got.generated
           /\ panicked' = got.panicked
           /\ call' = [op |-> "getTile", tileCoord |-> t,
                       chunkCoord |-> got.chunkCoord,
                       coordInChunk |-> got.coordInChunk,
                       ok |-> got.ok, addr |-> got.addr, tile |-> got.tile]
    /\ UNCHANGED <<windowSize, camera, TILE_SIZE, pc, frame, zoomKeys>>

StoreGetChunk == \E c \in ChunkCoords : GetChunk(c)
StoreGetTile == \E t \in TileCoords : GetTile(t)

StoreNext == StoreGetChunk \/ StoreGetTile

SpecStore == StoreInit /\ [][StoreNext]_vars

(***************************************************************************)
(* Coordinate spaces of main.go.  windowSize is a Vector2Int32: its half   *)
(* is an int32 division, converted to float32 afterwards.                  *)
(***************************************************************************)
toScreenCoord(worldCoord) ==
    Vec(worldCoord.X - camera.X + Float32Of(Quo(windowSize.X, 2)),
        worldCoord.Y - camera.Y + Float32Of(Quo(windowSize.Y, 2)))

toWorldCoord(screenCoord) ==
    Vec(screenCoord.X + camera.X - Float32Of(Quo(windowSize.X, 2)),
        screenCoord.Y + camera.Y - Float32Of(Quo(windowSize.Y, 2)))

toTileCoord(worldCoord) ==
    LET res == Vec(Quo(Int32Of(worldCoord.X), TILE_SIZE.X),
                   Quo(Int32Of(worldCoord.Y), TILE_SIZE.Y))
        resX == IF worldCoord.X < 0 THEN res.X - 1 ELSE res.X
        resY == IF worldCoord.Y < 0 THEN res.Y - 1 ELSE res.Y
    IN  Vec(resX, resY)

(***************************************************************************)
(* Coordinate spaces of part_000.  windowSize is an rl.Vector2: its half   *)
(* is a float32 division.                                                  *)
(***************************************************************************)
translateVec2(v, x, y) == Vec(v.X + x, v.Y + y)

HalfWindowF == Vec(Float32Of(windowSize.X) \div 2, Float32Of(windowSize.Y) \div 2)

toWorldCoordF(screenCoord) ==
    translateVec2(translateVec2(screenCoord, HalfWindowF.X, HalfWindowF.Y),
                  -camera.X, -camera.Y)

toScreenCoordF(worldCoord) ==
    translateVec2(translateVec2(worldCoord, -camera.X, -camera.Y),
                  HalfWindowF.X, HalfWindowF.Y)

(***************************************************************************)
(* Game.draw.  The loops carry the store, whether a call panicked, and the *)
(* calls made so far: each getTile with the tile it returned and the       *)
(* position handed to drawTile (int32 of the screen coordinate).           *)
(***************************************************************************)
drawCell(acc, tileSize, x, y) ==
    LET worldCoord == toWorldCoord(Vec(Float32Of(x * tileSize.X),
                                       Float32Of(y * tileSize.Y)))
        tileCoord == toTileCoord(worldCoord)
        got == getTile([coordToChunk |-> acc.coordToChunk,
                        generated |-> acc.generated], tileCoord)
        screenCoord == toScreenCoord(worldCoord)
        screenPos == Vec(Int32Of(screenCoord.X), Int32Of(screenCoord.Y))
        drawn == [tileCoord |-> tileCoord, tile |-> got.tile,
                  screenPos |-> screenPos, debug |-> FALSE]
        debug == [tileCoord |-> tileCoord, tile |-> ZeroTile,
                  screenPos |-> screenPos, debug |-> TRUE]
    IN  IF got.panicked
        THEN [acc EXCEPT !.panicked = TRUE]
        ELSE [coordToChunk |-> got.coordToChunk,
              generated |-> got.generated,
              panicked |-> FALSE,
              frame |-> IF tileCoord.X = 0 /\ tileCoord.Y = 0
                        THEN acc.frame \o <<drawn, debug>>
                        ELSE Append(acc.frame, drawn)]

RECURSIVE drawX(_, _, _, _)
drawX(acc, tileSize, y, x) ==
    IF acc.panicked \/ ~(x < Quo(windowSize.X, tileSize.X))
    THEN acc
    ELSE drawX(drawCell(acc, tileSize, x, y), tileSize, y, x + 1)

RECURSIVE drawY(_, _, _)
drawY(acc, tileSize, y) ==
    IF acc.panicked \/ ~(y < Quo(windowSize.Y, tileSize.Y))
    THEN acc
    ELSE drawY(drawX(acc, tileSize, y, 0), tileSize, y + 1)

\* An integer division by zero is a runtime panic.
draw ==
    LET tileSize == TILE_SIZE
        start == [coordToChunk |-> coordToChunk, generated |-> generated,
                  panicked |-> FALSE, frame |-> <<>>]
    IN  IF tileSize.X = 0 \/ tileSize.Y = 0
        THEN [start EXCEPT !.panicked = TRUE]
        ELSE drawY(start, tileSize, 0)

(***************************************************************************)
(* Game.handleInput, for the keys down in this frame.                      *)
(***************************************************************************)
moveSpeed == 21

Max(a, b) == IF a > b THEN a ELSE b

movedCamera(w, s, a, d) ==
    LET y1 == IF w THEN camera.Y - moveSpeed ELSE camera.Y
        y2 == IF s THEN y1 + moveSpeed ELSE y1
        x1 == IF a THEN camera.X - moveSpeed ELSE camera.X
        x2 == IF d THEN x1 + moveSpeed ELSE x1
    IN  Vec(x2, y2)

\* zoomedTileSize without the max(1, ...) of the zoom-out step.
zoomedTileSizeUnclamped(q, e) ==
    LET in == IF q THEN Vec(TILE_SIZE.X + 1, TILE_SIZE.Y + 1) ELSE TILE_SIZE
    IN  IF e THEN Vec(in.X - 1, in.Y - 1) ELSE in

zoomedTileSize(q, e) ==
    LET in == IF q THEN Vec(TILE_SIZE.X + 1, TILE_SIZE.Y + 1) ELSE TILE_SIZE
    IN  IF e THEN Vec(Max(1, in.X - 1), Max(1, in.Y - 1)) ELSE in

(***************************************************************************)
(* Spec: main.  Each turn of the loop draws (BeginDrawing, ClearBackground,*)
(* draw) and then handles input (handleInput, EndDrawing).  main opens an  *)
(* 800 x 600 window; the model draws a ViewW x ViewH one, which the same   *)
(* loops cover in fewer cells.                                             *)
(***************************************************************************)
Init ==
    /\ windowSize = Vec(ViewW, ViewH)
    /\ camera = Vec(0, 0)
    /\ coordToChunk = <<>>
    /\ TILE_SIZE = Vec(5, 5)
    /\ generated = <<>>
    /\ panicked = FALSE
    /\ pc = "draw"
    /\ call = NoCall
    /\ frame = <<>>
    /\ zoomKeys = {}

Draw ==
    /\ ~panicked
    /\ pc = "draw"
    /\ \E done \in {draw} :
           /\ coordToChunk' = done.coordToChunk
           /\ generated' = done.generated
           /\ panicked' = done.panicked
           /\ frame' = done.frame
    /\ pc' = "input"
    /\ UNCHANGED <<windowSize, camera, TILE_SIZE, call, zoomKeys>>

InBounds(cam, size) ==
    /\ Abs(cam.X) <= MaxCamSteps * moveSpeed
    /\ Abs(cam.Y) <= MaxCamSteps * moveSpeed
    /\ size.X <= MaxTileSize
    /\ size.Y <= MaxTileSize

HandleInput(w, s, a, d, q, e) ==
    /\ ~panicked
    /\ pc = "input"
    /\ InBounds(movedCamera(w, s, a, d), zoomedTileSize(q, FALSE))
    /\ camera' = movedCamera(w, s, a, d)
    /\ TILE_SIZE' = zoomedTileSize(q, e)
    /\ zoomKeys' = (IF q THEN {"Q"} ELSE {}) \cup (IF e THEN {"E"} ELSE {})
    /\ call' = [op |-> "handleInput", tileSize |-> TILE_SIZE]
    /\ frame' = <<>>
    /\ pc' = "draw"
    /\ UNCHANGED <<windowSize, coordToChunk, generated, panicked>>

Frame ==
    \E w, s, a, d, q, e \in BOOLEAN : HandleInput(w, s, a, d, q, e)

Next == Draw \/ Frame

Spec == Init /\ [][Next]_vars

(***************************************************************************)
(* SpecPure: the functions of the program applied to inputs drawn by the   *)
(* initial state.  call holds the function, its argument and, once done,   *)
(* what it returned.                                                       *)
(***************************************************************************)
PureRest ==
    /\ coordToChunk = <<>>
    /\ generated = <<>>
    /\ panicked = FALSE
    /\ pc = "pure"
    /\ frame = <<>>
    /\ zoomKeys = {}

Pending(fn, arg) == [fn |-> fn, done |-> FALSE, arg |-> arg]

InitToTileCoord ==
    /\ windowSize = Vec(800, 600)
    /\ camera = Vec(0, 0)
    /\ TILE_SIZE \in {Vec(n, n) : n \in 1..MaxPureTile}
    /\ call \in {Pending("toTileCoord", Vec(x, y)) :
                    x \in -MaxWorld..MaxWorld,
                    y \in {-2 * Unit, -Unit, -1, 0, Unit}}

InitCoords ==
    /\ windowSize \in {Vec(800, 600), Vec(1080, 720), Vec(13, 7)}
    /\ camera \in {Vec(i * moveSpeed, j * moveSpeed) :
                      i, j \in -MaxCamSteps..MaxCamSteps}
    /\ TILE_SIZE = Vec(5, 5)
    /\ call \in {Pending(fn, Vec(x, y)) :
                    fn \in {"coords", "coordsF"},
                    x \in {-moveSpeed, 0, 3, Unit},
                    y \in {-Unit, 0, 5}}

InitGetTerrain ==
    /\ windowSize = Vec(800, 600)
    /\ camera = Vec(0, 0)
    /\ TILE_SIZE = Vec(5, 5)
    /\ call \in {Pending("getTerrain", height) : height \in 0..MaxHeight}

\* The w x h matrix whose cell (x, y) holds its own flat index y*w + x.
Labelled(w, h) == [w |-> w, h |-> h, data |-> <<>> \o [i \in 1..(w * h) |-> i - 1]]

InitMatrix ==
    /\ windowSize = Vec(800, 600)
    /\ camera = Vec(0, 0)
    /\ TILE_SIZE = Vec(5, 5)
    /\ call \in {Pending(fn, [m |-> Labelled(w, h), x |-> x, y |-> y]) :
                    fn \in {"At", "Set"},
                    w \in 1..MaxDim, h \in 1..MaxDim,
                    x \in -1..MaxDim, y \in -1..MaxDim}

PureInit ==
    /\ PureRest
    /\ InitToTileCoord \/ InitCoords \/ InitGetTerrain \/ InitMatrix

Return(ret) ==
    /\ call' = [fn |-> call.fn, done |-> TRUE, arg |-> call.arg, ret |-> ret]
    /\ UNCHANGED <<windowSize, camera, coordToChunk, TILE_SIZE, generated,
                   panicked, pc, frame, zoomKeys>>

ApplyToTileCoord ==
    /\ call.fn = "toTileCoord" /\ ~call.done
    /\ Return(toTileCoord(call.arg))

ApplyCoords ==
    /\ call.fn = "coords" /\ ~call.done
    /\ Return([screen |-> toScreenCoord(call.arg),
               world |-> toWorldCoord(call.arg),
               worldOfScreen |-> toWorldCoord(toScreenCoord(call.arg)),
               screenOfWorld |-> toScreenCoord(toWorldCoord(call.arg))])

ApplyCoordsF ==
    /\ call.fn = "coordsF" /\ ~call.done
    /\ Return([screen |-> toScreenCoordF(call.arg),
               world |-> toWorldCoordF(call.arg),
               worldOfScreen |-> toWorldCoordF(toScreenCoordF(call.arg)),
               screenOfWorld |-> toScreenCoordF(toWorldCoordF(call.arg))])

ApplyGetTerrain ==
    /\ call.fn = "getTerrain" /\ ~call.done
    /\ Return(getTerrain(call.arg))

\* The Set calls store -1, which no cell of a Labelled matrix holds.
ApplyAt ==
    /\ call.fn = "At" /\ ~call.done
    /\ Return(IF IndexPanics(call.arg.m, call.arg.x, call.arg.y)
              THEN [panicked |-> TRUE, m |-> call.arg.m, value |-> -1]
              ELSE [panicked |-> FALSE, m |-> call.arg.m,
                    value |-> At(call.arg.m, call.arg.x, call.arg.y)])

ApplySet ==
    /\ call.fn = "Set" /\ ~call.done
    /\ Return(IF IndexPanics(call.arg.m, call.arg.x, call.arg.y)
              THEN [panicked |-> TRUE, m |-> call.arg.m, value |-> -1]
              ELSE [panicked |-> FALSE,
                    m |-> Set(call.arg.m, call.arg.x, call.arg.y, -1),
                    value |-> -1])

PureNext ==
    \/ ApplyToTileCoord
    \/ ApplyCoords
    \/ ApplyCoordsF
    \/ ApplyGetTerrain
    \/ ApplyAt
    \/ ApplySet

SpecPure == PureInit /\ [][PureNext]_vars

(***************************************************************************)
(* Properties.                                                             *)
(***************************************************************************)
FloorDiv(a, b) == a \div b      \* rounds toward negative infinity, b > 0
TrueMod(a, b) == a % b          \* in 0..b-1, b > 0

\* The tile generateChunk computes for an absolute tile coordinate.
TileGeneratedFor(t) ==
    LET height == getHeight(t)
    IN  [terrain |-> getTerrain(height),
         waterlogged |-> height < WATER_LEVEL,
         height |-> height]

\* C1: getTile(t) reads the chunk floorDiv(t, chunkSize) at the offset
\* mod(t, chunkSize), chunk*chunkSize + offset is t, and the tile returned is
\* the one generated for the absolute coordinate t, for t of any sign.
C1_TileLocatedByFloorDiv ==
    call.op = "getTile" =>
        /\ call.chunkCoord = Vec(FloorDiv(call.tileCoord.X, CHUNK_SIZE.X),
                                 FloorDiv(call.tileCoord.Y, CHUNK_SIZE.Y))
        /\ call.coordInChunk = Vec(TrueMod(call.tileCoord.X, CHUNK_SIZE.X),
                                   TrueMod(call.tileCoord.Y, CHUNK_SIZE.Y))
        /\ call.chunkCoord.X * CHUNK_SIZE.X + call.coordInChunk.X = call.tileCoord.X
        /\ call.chunkCoord.Y * CHUNK_SIZE.Y + call.coordInChunk.Y = call.tileCoord.Y
        /\ call.tile = TileGeneratedFor(call.tileCoord)

\* C2: toTileCoord(w) is floorDiv(w, tileSize) componentwise, for w of any
\* sign and every tile size >= 1.
C2_ToTileCoordFloors ==
    (call.fn = "toTileCoord" /\ call.done) =>
        call.ret = Vec(FloorDiv(call.arg.X, Unit * TILE_SIZE.X),
                       FloorDiv(call.arg.Y, Unit * TILE_SIZE.Y))

OncePerCoordinate ==
    \A c \in ChunkCoords \cup DOMAIN generated \cup DOMAIN coordToChunk :
        Count(generated, c) = IF c \in DOMAIN coordToChunk THEN 1 ELSE 0

HitOrMiss ==
    LET c == call'.chunkCoord
    IN  IF c \in DOMAIN coordToChunk
        THEN /\ call'.ok
             /\ UNCHANGED <<coordToChunk, generated>>
             /\ call'.addr = coordToChunk[c].addr
        ELSE /\ ~call'.ok
             /\ DOMAIN coordToChunk' = DOMAIN coordToChunk \cup {c}
             /\ \A d \in DOMAIN coordToChunk : coordToChunk'[d] = coordToChunk[d]
             /\ Count(generated', c) = 1
             /\ call'.addr = coordToChunk'[c].addr

\* C3: generateChunk has run exactly once for every cached coordinate and never
\* for any other; a call for a cached coordinate is a hit that changes neither
\* the mapping nor the counters and returns the stored chunk; a call for an
\* uncached one generates once, inserts, and returns the chunk it inserted.
C3_GeneratedOncePerCoordinate ==
    /\ OncePerCoordinate
    /\ [][OncePerCoordinate' /\ HitOrMiss]_vars

C3_Witness ==
    /\ call.op = "getChunk"
    /\ call.ok
    /\ Count(generated, call.chunkCoord) = 1
    /\ Cardinality(DOMAIN coordToChunk) = MaxChunks

\* C10: the offset getTile computes is inside the chunk grid for tile
\* coordinates of any sign, every stored chunk is a full grid, and no call
\* panics.
C10_OffsetInsideGrid ==
    /\ ~panicked
    /\ \A c \in DOMAIN coordToChunk :
           /\ coordToChunk[c].tiles.w = CHUNK_SIZE.X
           /\ coordToChunk[c].tiles.h = CHUNK_SIZE.Y
           /\ Len(coordToChunk[c].tiles.data) = CHUNK_SIZE.X * CHUNK_SIZE.Y
    /\ (call.op = "getTile" =>
           /\ 0 <= call.coordInChunk.X /\ call.coordInChunk.X < CHUNK_SIZE.X
           /\ 0 <= call.coordInChunk.Y /\ call.coordInChunk.Y < CHUNK_SIZE.Y)

C10_Witness ==
    /\ call.op = "getTile"
    /\ call.tileCoord = Vec(-CHUNK_SIZE.X - 1, -1)
    /\ call.coordInChunk = Vec(CHUNK_SIZE.X - 1, CHUNK_SIZE.Y - 1)
    /\ ~panicked

\* The tile a map holds for tile coordinate t.
StoredTile(map, t) ==
    At(map[getChunkCoords(t)].tiles,
       mod(t.X, CHUNK_SIZE.X), mod(t.Y, CHUNK_SIZE.Y))

ChunksKept ==
    \A c \in DOMAIN coordToChunk :
        /\ c \in DOMAIN coordToChunk'
        /\ coordToChunk'[c].tiles = coordToChunk[c].tiles

ResolvedFromStore ==
    \A i \in DOMAIN frame' :
        ~frame'[i].debug =>
            LET t == frame'[i].tileCoord
            IN  /\ getChunkCoords(t) \in DOMAIN coordToChunk'
                /\ frame'[i].tile = StoredTile(coordToChunk', t)
                /\ (getChunkCoords(t) \in DOMAIN coordToChunk =>
                       frame'[i].tile = StoredTile(coordToChunk, t))

\* C4: no step removes a cached chunk or alters a tile stored in one, and
\* every tile a draw pass resolves is the tile the store holds for that
\* coordinate, before the pass when its chunk was already cached and after it
\* in any case: a coordinate resolved again, after other calls, camera moves
\* and zoom changes, gives the identical Tile.
C4_SameTileEveryTime == [][ChunksKept /\ ResolvedFromStore]_vars

\* Reached only through the first draw (tile size 5, camera at the origin),
\* which resolves tile (-2, -1); here it is resolved again after a zoom-out.
C4_Witness ==
    /\ pc = "input"
    /\ TILE_SIZE = Vec(4, 4)
    /\ camera = Vec(0, 0)
    /\ \E i \in DOMAIN frame :
           /\ frame[i].tileCoord = Vec(-2, -1)
           /\ frame[i].tile = TileGeneratedFor(Vec(-2, -1))

TileSizePositive == TILE_SIZE.X >= 1 /\ TILE_SIZE.Y >= 1 /\ ~panicked

ZoomedBy(old, new) ==
    LET in == IF "Q" \in zoomKeys' THEN old + 1 ELSE old
    IN  IF "E" \in zoomKeys'
        THEN new = (IF in - 1 < 1 THEN 1 ELSE in - 1)
        ELSE new = in

ZoomStep ==
    pc = "input" =>
        /\ ZoomedBy(TILE_SIZE.X, TILE_SIZE'.X)
        /\ ZoomedBy(TILE_SIZE.Y, TILE_SIZE'.Y)

\* C8: both components of TILE_SIZE are >= 1 in every state and no division
\* by the tile size panics; handleInput adds 1 to each component for zoom-in
\* and then, for zoom-out, subtracts 1 unless that would go below 1, in which
\* case the component stays 1.
C8_TileSizeAtLeastOne ==
    /\ TileSizePositive
    /\ [][TileSizePositive' /\ ZoomStep]_vars

\* A zoom-out step taken at tile size 1, and the draw pass that followed it.
C8_Witness ==
    /\ call.op = "handleInput"
    /\ call.tileSize = Vec(1, 1)
    /\ zoomKeys = {"E"}
    /\ TILE_SIZE = Vec(1, 1)
    /\ pc = "input"
    /\ frame # <<>>

\* windowSize/2 as each version computes it.
ViewportCenter(version) ==
    IF version = "coords"
    THEN Vec(Float32Of(Quo(windowSize.X, 2)), Float32Of(Quo(windowSize.Y, 2)))
    ELSE HalfWindowF

\* C5: in both versions toWorldCoord is screen - viewportCenter + cameraCenter,
\* toScreenCoord is world - cameraCenter + viewportCenter, and each undoes the
\* other.
C5_CoordsAreInverses ==
    (call.fn \in {"coords", "coordsF"} /\ call.done) =>
        LET p == call.arg
            center == ViewportCenter(call.fn)
        IN  /\ call.ret.world = Vec(p.X - center.X + camera.X,
                                    p.Y - center.Y + camera.Y)
            /\ call.ret.screen = Vec(p.X - camera.X + center.X,
                                     p.Y - camera.Y + center.Y)
            /\ call.ret.worldOfScreen = p
            /\ call.ret.screenOfWorld = p

BandOf(height) ==
    IF height < 420 THEN Sand
    ELSE IF height < 450 THEN Gravel
    ELSE IF height < 470 THEN Dirt
    ELSE IF height < 550 THEN LowGrass
    ELSE IF height < 600 THEN HighGrass
    ELSE IF height < 780 THEN Forest
    ELSE IF height < 1000 THEN Mountain
    ELSE UndefinedTerrain

\* C6: getTerrain returns the category of the first band of the table
\* {0.42 Sand, 0.45 Gravel, 0.47 Dirt, 0.55 LowGrass, 0.60 HighGrass,
\* 0.78 Forest, 1.00 Mountain} whose upper bound strictly exceeds the height,
\* UndefinedTerrain when there is none (height >= 1.0), and so a category
\* other than UndefinedTerrain for every height in [0, 1).
C6_FirstBandAbove ==
    (call.fn = "getTerrain" /\ call.done) =>
        /\ call.ret = BandOf(call.arg)
        /\ (call.arg >= 1000 => call.ret = UndefinedTerrain)
        /\ (call.arg < 1000 => call.ret # UndefinedTerrain)

C6_Witness ==
    /\ call.fn = "getTerrain" /\ call.done
    /\ call.arg = 1000
    /\ call.ret = UndefinedTerrain

Classified(height, terrain) ==
    (call.fn = "getTerrain" /\ call.done /\ call.arg = height) => call.ret = terrain

\* C7, as claimed: the heights 0.419, 0.42 and 0.421 are Sand, Sand and
\* Gravel, and the height 1.0 is Mountain.
C7_BoundariesAsClaimed ==
    /\ Classified(419, Sand)
    /\ Classified(420, Sand)
    /\ Classified(421, Gravel)
    /\ Classified(1000, Mountain)

\* C7, amended: the heights 0.419, 0.42 and 0.421 are Sand, Gravel and
\* Gravel (a band's upper bound belongs to the next band), and the height 1.0
\* is UndefinedTerrain.
C7_BoundariesExclusive ==
    /\ Classified(419, Sand)
    /\ Classified(420, Gravel)
    /\ Classified(421, Gravel)
    /\ Classified(1000, UndefinedTerrain)

C7_Witness ==
    /\ call.fn = "getTerrain" /\ call.done
    /\ call.arg = 420
    /\ call.ret = Gravel

\* C9: At(x, y) and Set(x, y, v) with x outside [0, w) or y outside [0, h)
\* panic.
C9_OutOfRangePanics ==
    (/\ call.fn \in {"At", "Set"} /\ call.done
     /\ \/ call.arg.x \notin 0..(call.arg.m.w - 1)
        \/ call.arg.y \notin 0..(call.arg.m.h - 1)) => call.ret.panicked

====
